---- MODULE Spec2Model ----
(***************************************************************************)
(* Chunked-job progress and aggregation engine of the browser-history      *)
(* backend (BrowserHistoryService over RedisService), for one job          *)
(* (date, email).  Every awaited store operation is one atomic step.       *)
(***************************************************************************)
EXTENDS Integers, Sequences, FiniteSets

----------------------------------------------------------------------------
(* Bounds of the model *)

MaxLen == 7
MaxChunk == 3
MaxCalls == 5
MaxCrashCalls == 4
MaxEnvLen == 3
MaxEnvCalls == 3
MaxReports == 3
MaxProcs == 2
MaxConcLen == 3
MaxConcChunk == 2
MaxConcCalls == 4

----------------------------------------------------------------------------
(* Values *)

\* An optional value: <<>> is null / undefined / missing key, <<v>> is v.
Null == <<>>

Some(v) == <<v>>

\* The report both catch blocks and the empty finalize return.
NeutralReport ==
  [ totalVisits |-> 0,
    categories |-> <<>>,
    mostVisitedSites |-> <<>>,
    mostFrequentCategory |-> [category |-> "General", frequency |-> 0],
    mostFrequentSite |-> [url |-> <<"raw", "">>, category |-> "General", visits |-> 0] ]

\* A url is <<"url", scheme, host, path>> when new URL() parses it and
\* <<"raw", text>> when it does not.
UrlAX == <<"url", "https", "a.com", "/x">>

UrlAY == <<"url", "https", "a.com", "/y">>

UrlB == <<"url", "https", "b.com", "/">>

UrlBad == <<"raw", "not a url">>

\* Number.prototype.toString() of a non-negative integer: its decimal digits.
RECURSIVE toString(_)
toString(n) ==
  IF n < 10 THEN <<n>> ELSE toString(n \div 10) \o <<n % 10>>

\* parseInt(s, 10) of a string of decimal digits.
RECURSIVE parseInt(_)
parseInt(s) ==
  IF Len(s) = 0 THEN 0
  ELSE 10 * parseInt(SubSeq(s, 1, Len(s) - 1)) + s[Len(s)]

----------------------------------------------------------------------------
(* aggregateReports *)

\* Index of key k in an insertion-ordered map (a sequence of entries), or 0.
RECURSIVE IndexOfKey(_, _)
IndexOfKey(m, k) ==
  IF Len(m) = 0 THEN 0
  ELSE IF m[Len(m)].key = k /\ IndexOfKey(SubSeq(m, 1, Len(m) - 1), k) = 0
       THEN Len(m)
       ELSE IndexOfKey(SubSeq(m, 1, Len(m) - 1), k)

\* m[k] || 0
GetOrZero(m, k) ==
  IF IndexOfKey(m, k) = 0 THEN 0 ELSE m[IndexOfKey(m, k)].val

\* m[k] = v on an insertion-ordered map: an existing key keeps its position.
PutKey(m, k, v) ==
  IF IndexOfKey(m, k) = 0
  THEN Append(m, [key |-> k, val |-> v])
  ELSE [m EXCEPT ![IndexOfKey(m, k)] = [key |-> k, val |-> v]]

AddCategoryOverwrite(cats, entry) ==
  PutKey(cats, entry.key, entry.val)

\* aggregatedReport.categories[category] = (categories[category] || 0) + count
AddCategory(cats, entry) ==
  PutKey(cats, entry.key, GetOrZero(cats, entry.key) + entry.val)

RECURSIVE AddCategories(_, _)
AddCategories(cats, entries) ==
  IF Len(entries) = 0 THEN cats
  ELSE AddCategories(AddCategory(cats, Head(entries)), Tail(entries))

\* Schemes whose URL.origin is scheme://host; every other scheme (chrome:,
\* file:, about:, ...) has the origin "null".
SpecialSchemes == {"http", "https", "ftp", "ws", "wss"}

\* `${url.origin}/` of a parsable url, the url itself when new URL() throws;
\* "null/" is not itself a parsable url.
extractMainUrl(fullUrl) ==
  IF fullUrl[1] = "url"
  THEN IF fullUrl[2] \in SpecialSchemes
       THEN <<"url", fullUrl[2], fullUrl[3], "/">>
       ELSE <<"raw", "null/">>
  ELSE fullUrl

AddSite(siteVisitMap, site) ==
  LET mainUrl == extractMainUrl(site.url) IN
  IF IndexOfKey(siteVisitMap, mainUrl) # 0
  THEN PutKey(siteVisitMap, mainUrl,
              [ visits |-> siteVisitMap[IndexOfKey(siteVisitMap, mainUrl)].val.visits
                             + site.visits,
                category |-> site.category ])
  ELSE PutKey(siteVisitMap, mainUrl,
              [visits |-> site.visits, category |-> site.category])

RECURSIVE AddSites(_, _)
AddSites(siteVisitMap, sites) ==
  IF Len(sites) = 0 THEN siteVisitMap
  ELSE AddSites(AddSite(siteVisitMap, Head(sites)), Tail(sites))

\* The number a sort compares: a site's visits, a category entry's count.
Weight(x) ==
  IF "visits" \in DOMAIN x THEN x.visits ELSE x.val

RECURSIVE InsertDescUnstable(_, _)
InsertDescUnstable(sorted, x) ==
  IF Len(sorted) = 0 THEN <<x>>
  ELSE IF Weight(Head(sorted)) > Weight(x)
       THEN <<Head(sorted)>> \o InsertDescUnstable(Tail(sorted), x)
       ELSE <<x>> \o sorted

\* Insert x into a descending sequence behind every element it does not
\* exceed: repeated on the elements in order it is a stable sort.
RECURSIVE InsertDesc(_, _)
InsertDesc(sorted, x) ==
  IF Len(sorted) = 0 THEN <<x>>
  ELSE IF Weight(Head(sorted)) >= Weight(x)
       THEN <<Head(sorted)>> \o InsertDesc(Tail(sorted), x)
       ELSE <<x>> \o sorted

\* Array.prototype.sort((a, b) => b - a), which is stable.
RECURSIVE SortDesc(_)
SortDesc(s) ==
  IF Len(s) = 0 THEN <<>>
  ELSE InsertDesc(SortDesc(SubSeq(s, 1, Len(s) - 1)), s[Len(s)])

SliceAll(s, n) ==
  s

\* Array.prototype.slice(0, n)
Slice0(s, n) ==
  SubSeq(s, 1, IF Len(s) < n THEN Len(s) ELSE n)

SumTotalVisitsLast(reports) ==
  IF Len(reports) = 0 THEN 0 ELSE reports[Len(reports)].totalVisits

RECURSIVE SumTotalVisits(_)
SumTotalVisits(reports) ==
  IF Len(reports) = 0 THEN 0
  ELSE SumTotalVisits(SubSeq(reports, 1, Len(reports) - 1))
         + reports[Len(reports)].totalVisits

RECURSIVE FoldCategories(_)
FoldCategories(reports) ==
  IF Len(reports) = 0 THEN <<>>
  ELSE AddCategories(FoldCategories(SubSeq(reports, 1, Len(reports) - 1)),
                     reports[Len(reports)].categories)

RECURSIVE FoldSites(_)
FoldSites(reports) ==
  IF Len(reports) = 0 THEN <<>>
  ELSE AddSites(FoldSites(SubSeq(reports, 1, Len(reports) - 1)),
                reports[Len(reports)].mostVisitedSites)

aggregateReports(reports) ==
  LET categories == FoldCategories(reports)
      siteVisitMap == FoldSites(reports)
      entries == [i \in 1..Len(siteVisitMap) |->
                    [ url |-> siteVisitMap[i].key,
                      visits |-> siteVisitMap[i].val.visits,
                      category |-> siteVisitMap[i].val.category ]]
      mostVisitedSites == Slice0(SortDesc(entries), 5)
      sortedCategories == SortDesc(categories)
  IN  [ totalVisits |-> SumTotalVisits(reports),
        categories |-> categories,
        mostVisitedSites |-> mostVisitedSites,
        mostFrequentCategory |->
          IF Len(sortedCategories) > 0
          THEN [ category |-> sortedCategories[1].key,
                 frequency |-> sortedCategories[1].val ]
          ELSE NeutralReport.mostFrequentCategory,
        mostFrequentSite |->
          IF Len(mostVisitedSites) > 0
          THEN [ url |-> mostVisitedSites[1].url,
                 category |-> mostVisitedSites[1].category,
                 visits |-> mostVisitedSites[1].visits ]
          ELSE NeutralReport.mostFrequentSite ]

----------------------------------------------------------------------------
(* The classifier call *)

ReportA ==
  [ totalVisits |-> 5,
    categories |-> << [key |-> "News", val |-> 3], [key |-> "Sports", val |-> 2] >>,
    mostVisitedSites |-> << [url |-> UrlAX, category |-> "News", visits |-> 3] >>,
    mostFrequentCategory |-> [category |-> "News", frequency |-> 3],
    mostFrequentSite |-> [url |-> UrlAX, category |-> "News", visits |-> 3] ]

ReportB ==
  [ totalVisits |-> 2,
    categories |-> << [key |-> "News", val |-> 2] >>,
    mostVisitedSites |-> << [url |-> UrlAY, category |-> "News", visits |-> 2] >>,
    mostFrequentCategory |-> [category |-> "News", frequency |-> 2],
    mostFrequentSite |-> [url |-> UrlAY, category |-> "News", visits |-> 2] ]

\* What the completion call can do: throw, answer without a {...} substring,
\* answer with a {...} substring that JSON.parse rejects, or answer with one
\* that parses to value.
GroqOutcomes ==
  { [throws |-> TRUE, hasJson |-> FALSE, parses |-> FALSE, value |-> NeutralReport],
    [throws |-> FALSE, hasJson |-> FALSE, parses |-> FALSE, value |-> NeutralReport],
    [throws |-> FALSE, hasJson |-> TRUE, parses |-> FALSE, value |-> NeutralReport] }
  \cup { [throws |-> FALSE, hasJson |-> TRUE, parses |-> TRUE, value |-> r] :
           r \in {ReportA, ReportB} }

analyzeChunkRethrow(outcome) ==
  IF outcome.throws THEN Null
  ELSE IF ~outcome.hasJson THEN Null
  ELSE IF ~outcome.parses THEN Null
  ELSE Some(outcome.value)

\* The report analyzeChunk resolves to (Null would be a rejection).
analyzeChunk(outcome) ==
  IF outcome.throws THEN Some(NeutralReport)
  ELSE IF ~outcome.hasJson THEN Some(NeutralReport)
  ELSE IF ~outcome.parses THEN Some(NeutralReport)
  ELSE Some(outcome.value)

----------------------------------------------------------------------------
(* processNextChunk arithmetic *)

MathFloorDiv(length, chunkSize) ==
  IF chunkSize > 0
  THEN [kind |-> "num", n |-> length \div chunkSize]
  ELSE [kind |-> "num", n |-> 0]

\* Math.ceil(length / chunkSize) as a JavaScript number.
MathCeilDiv(length, chunkSize) ==
  IF chunkSize > 0
  THEN [kind |-> "num", n |-> (length + chunkSize - 1) \div chunkSize]
  ELSE IF chunkSize < 0
  THEN [kind |-> "num", n |-> 0 - (length \div (0 - chunkSize))]
  ELSE IF length > 0
  THEN [kind |-> "Infinity", n |-> 0]
  ELSE [kind |-> "NaN", n |-> 0]

GreaterThan(index, totalChunks) ==
  CASE totalChunks.kind = "num" -> index > totalChunks.n
    [] totalChunks.kind = "Infinity" -> FALSE
    [] totalChunks.kind = "NaN" -> FALSE

\* index >= totalChunks on JavaScript numbers
GreaterEq(index, totalChunks) ==
  CASE totalChunks.kind = "num" -> index >= totalChunks.n
    [] totalChunks.kind = "Infinity" -> FALSE
    [] totalChunks.kind = "NaN" -> FALSE

sliceInclusiveEnd(s, start, end) ==
  SubSeq(s, start + 1, IF end + 1 < Len(s) THEN end + 1 ELSE Len(s))

\* Array.prototype.slice(start, end) for 0 <= start <= end
slice(s, start, end) ==
  SubSeq(s, start + 1, IF end < Len(s) THEN end ELSE Len(s))

\* The history array [item 1, ..., item n].
Items(n) == [i \in 1..n |-> i]

----------------------------------------------------------------------------
(* State *)

VARIABLES
  history,        \* value of browser-history:{date}:{email}
  progress,       \* value of chunk-progress:{date}:{email}
  chunkReports,   \* index |-> value of chunk-report:{date}:{email}:{index}
  dailyReport,    \* value of daily-report:{date}:{email}
  jobChunkSize,   \* the chunkSize the caller passes for this job
  pc,             \* per request: the await it is suspended at
  loc,            \* per request: its local variables
  ret,            \* per request slot: how its last request ended
  returns,        \* completed flags returned by processNextChunk, in order
  classified,     \* chunks handed to the classifier, in order
  calls           \* processNextChunk requests started

vars ==
  << history, progress, chunkReports, dailyReport, jobChunkSize,
     pc, loc, ret, returns, classified, calls >>

store == << history, progress, chunkReports, dailyReport >>

Procs == 1..MaxProcs

\* The one client of a sequentially used job.
Caller == 1

NoLoc ==
  [ chunkSize |-> 0, history |-> <<>>, totalChunks |-> [kind |-> "num", n |-> 0],
    currentChunkIndex |-> 0, chunk |-> <<>>, chunkReport |-> Null,
    reports |-> <<>>, chunkIndex |-> 0,
    reportsAtStart |-> 0 ]   \* how many chunk reports existed when finalize began

NoRet ==
  [op |-> "none", status |-> "none", completed |-> FALSE, report |-> Null, error |-> ""]

\* processNextChunk resolves to {completed}
RetCompleted(completed) ==
  [NoRet EXCEPT !.op = "processNextChunk", !.status = "ok", !.completed = completed]

\* op resolves to a DailyReport
RetReport(op, report) ==
  [NoRet EXCEPT !.op = op, !.status = "ok", !.report = Some(report)]

\* op rejects with new Error(message)
RetError(op, message) ==
  [NoRet EXCEPT !.op = op, !.status = "error", !.error = message]

\* redisService.get(chunkKey)
GetChunkReport(index) ==
  IF index \in DOMAIN chunkReports THEN Some(chunkReports[index]) ELSE Null

\* redisService.set(chunkKey, report)
SetChunkReport(index, report) ==
  [i \in DOMAIN chunkReports \cup {index} |->
     IF i = index THEN report ELSE chunkReports[i]]

Return(p, result) ==
  /\ pc' = [pc EXCEPT ![p] = "idle"]
  /\ loc' = [loc EXCEPT ![p] = NoLoc]
  /\ ret' = [ret EXCEPT ![p] = result]

----------------------------------------------------------------------------
(* processNextChunk *)

\* A request arrives: processNextChunk(date, email, chunkSize) starts.
processNextChunk(p, maxCalls) ==
  /\ pc[p] = "idle"
  /\ calls < maxCalls
  /\ calls' = calls + 1
  /\ pc' = [pc EXCEPT ![p] = "getHistory"]
  /\ loc' = [loc EXCEPT ![p] = [NoLoc EXCEPT !.chunkSize = jobChunkSize]]
  /\ ret' = [ret EXCEPT ![p] = NoRet]
  /\ UNCHANGED << store, jobChunkSize, returns, classified >>

\* !result || !result.history || !result.account
HistoryMissing(result) ==
  \/ result = Null
  \/ result[1].history = Null
  \/ result[1].account = Null

getHistoryDefaultEmpty(p) ==
  /\ pc[p] = "getHistory"
  /\ pc' = [pc EXCEPT ![p] = "getChunkProgress"]
  /\ LET items == IF HistoryMissing(history) THEN <<>> ELSE history[1].history[1]
     IN  loc' = [loc EXCEPT
                   ![p].history = items,
                   ![p].totalChunks = MathCeilDiv(Len(items), loc[p].chunkSize)]
  /\ UNCHANGED << store, ret, jobChunkSize, returns, classified, calls >>

\* const history = await this.getHistory(date, email); totalChunks
getHistory(p) ==
  /\ pc[p] = "getHistory"
  /\ IF HistoryMissing(history)
     THEN Return(p, RetError("processNextChunk", "No history found"))
     ELSE /\ pc' = [pc EXCEPT ![p] = "getChunkProgress"]
          /\ loc' = [loc EXCEPT
                       ![p].history = history[1].history[1],
                       ![p].totalChunks =
                          MathCeilDiv(Len(history[1].history[1]), loc[p].chunkSize)]
          /\ UNCHANGED ret
  /\ UNCHANGED << store, jobChunkSize, returns, classified, calls >>

\* progress ? parseInt(progress, 10) : 0
ProgressValue(stored) ==
  IF stored = Null THEN 0 ELSE parseInt(stored[1])

getChunkProgressLeased(p) ==
  /\ pc[p] = "getChunkProgress"
  /\ \A q \in Procs \ {p} :
       pc[q] \notin {"analyzeChunk", "setChunkReport", "setChunkProgress"}
  /\ LET currentChunkIndex == ProgressValue(progress)
         start == currentChunkIndex * loc[p].chunkSize
         end == start + loc[p].chunkSize
     IN  IF GreaterEq(currentChunkIndex, loc[p].totalChunks)
         THEN /\ Return(p, RetCompleted(TRUE))
              /\ returns' = Append(returns, TRUE)
         ELSE /\ pc' = [pc EXCEPT ![p] = "analyzeChunk"]
              /\ loc' = [loc EXCEPT
                           ![p].currentChunkIndex = currentChunkIndex,
                           ![p].chunk = slice(loc[p].history, start, end)]
              /\ UNCHANGED << ret, returns >>
  /\ UNCHANGED << store, jobChunkSize, classified, calls >>

getChunkProgressCleanup(p) ==
  /\ pc[p] = "getChunkProgress"
  /\ LET currentChunkIndex == ProgressValue(progress)
         start == currentChunkIndex * loc[p].chunkSize
         end == start + loc[p].chunkSize
     IN  IF GreaterEq(currentChunkIndex, loc[p].totalChunks)
         THEN /\ Return(p, RetCompleted(TRUE))
              /\ returns' = Append(returns, TRUE)
              /\ progress' = Null
         ELSE /\ pc' = [pc EXCEPT ![p] = "analyzeChunk"]
              /\ loc' = [loc EXCEPT
                           ![p].currentChunkIndex = currentChunkIndex,
                           ![p].chunk = slice(loc[p].history, start, end)]
              /\ UNCHANGED << ret, returns, progress >>
  /\ UNCHANGED << history, chunkReports, dailyReport, jobChunkSize,
                  classified, calls >>

\* currentChunkIndex = await this.getChunkProgress(...); the completed test;
\* the slice
getChunkProgress(p) ==
  /\ pc[p] = "getChunkProgress"
  /\ LET currentChunkIndex == ProgressValue(progress)
         start == currentChunkIndex * loc[p].chunkSize
         end == start + loc[p].chunkSize
     IN  IF GreaterEq(currentChunkIndex, loc[p].totalChunks)
         THEN /\ Return(p, RetCompleted(TRUE))
              /\ returns' = Append(returns, TRUE)
         ELSE /\ pc' = [pc EXCEPT ![p] = "analyzeChunk"]
              /\ loc' = [loc EXCEPT
                           ![p].currentChunkIndex = currentChunkIndex,
                           ![p].chunk = slice(loc[p].history, start, end)]
              /\ UNCHANGED << ret, returns >>
  /\ UNCHANGED << store, jobChunkSize, classified, calls >>

\* The catch block ran: the create call threw, the response held no {...},
\* or JSON.parse threw.
Failed(outcome) ==
  outcome.throws \/ ~outcome.hasJson \/ ~outcome.parses

\* const chunkReport = await this.analyzeChunk(chunk); a rejection of
\* analyzeChunk would reject processNextChunk.
analyzeChunkStep(p) ==
  /\ pc[p] = "analyzeChunk"
  /\ \E outcome \in GroqOutcomes :
       /\ classified' = Append(classified,
                               [ chunk |-> loc[p].chunk, failed |-> Failed(outcome),
                                 index |-> loc[p].currentChunkIndex, p |-> p ])
       /\ IF analyzeChunk(outcome) = Null
          THEN Return(p, RetError("processNextChunk",
                                  "Invalid JSON format in AI response."))
          ELSE /\ pc' = [pc EXCEPT ![p] = "setChunkReport"]
               /\ loc' = [loc EXCEPT ![p].chunkReport = analyzeChunk(outcome)]
               /\ UNCHANGED ret
  /\ UNCHANGED << store, jobChunkSize, returns, calls >>

setChunkReportUnlessNeutral(p) ==
  /\ pc[p] = "setChunkReport"
  /\ chunkReports' =
       IF loc[p].chunkReport[1] = NeutralReport
       THEN chunkReports
       ELSE SetChunkReport(loc[p].currentChunkIndex, loc[p].chunkReport[1])
  /\ pc' = [pc EXCEPT ![p] = "setChunkProgress"]
  /\ UNCHANGED << history, progress, dailyReport, jobChunkSize, loc, ret,
                  returns, classified, calls >>

\* await this.redisService.set(chunkKey, chunkReport)
setChunkReport(p) ==
  /\ pc[p] = "setChunkReport"
  /\ chunkReports' = SetChunkReport(loc[p].currentChunkIndex, loc[p].chunkReport[1])
  /\ pc' = [pc EXCEPT ![p] = "setChunkProgress"]
  /\ UNCHANGED << history, progress, dailyReport, jobChunkSize, loc, ret,
                  returns, classified, calls >>

setChunkProgressSameIndex(p) ==
  /\ pc[p] = "setChunkProgress"
  /\ progress' = Some(toString(loc[p].currentChunkIndex))
  /\ Return(p, RetCompleted(FALSE))
  /\ returns' = Append(returns, FALSE)
  /\ UNCHANGED << history, chunkReports, dailyReport, jobChunkSize,
                  classified, calls >>

\* await this.setChunkProgress(date, email, currentChunkIndex + 1); return
setChunkProgress(p) ==
  /\ pc[p] = "setChunkProgress"
  /\ progress' = Some(toString(loc[p].currentChunkIndex + 1))
  /\ Return(p, RetCompleted(FALSE))
  /\ returns' = Append(returns, FALSE)
  /\ UNCHANGED << history, chunkReports, dailyReport, jobChunkSize,
                  classified, calls >>

----------------------------------------------------------------------------
(* finalizeDailyReport, getDailyReport, storeHistoryWithAccount *)

\* A request arrives: finalizeDailyReport(date, email) starts.
finalizeDailyReport(p) ==
  /\ pc[p] = "idle"
  /\ pc' = [pc EXCEPT ![p] = "finalizeScan"]
  /\ loc' = [loc EXCEPT ![p] =
               [NoLoc EXCEPT !.reportsAtStart = Cardinality(DOMAIN chunkReports)]]
  /\ ret' = [ret EXCEPT ![p] = NoRet]
  /\ UNCHANGED << store, jobChunkSize, returns, classified, calls >>

finalizeScanToProgress(p) ==
  /\ pc[p] = "finalizeScan"
  /\ LET report == GetChunkReport(loc[p].chunkIndex) IN
     IF report = Null \/ loc[p].chunkIndex >= ProgressValue(progress)
     THEN IF Len(loc[p].reports) = 0
          THEN Return(p, RetReport("finalizeDailyReport", NeutralReport))
          ELSE /\ pc' = [pc EXCEPT ![p] = "finalizeStore"]
               /\ UNCHANGED << loc, ret >>
     ELSE /\ loc' = [loc EXCEPT
                       ![p].reports = Append(loc[p].reports, report[1]),
                       ![p].chunkIndex = loc[p].chunkIndex + 1]
          /\ UNCHANGED << pc, ret >>
  /\ UNCHANGED << store, jobChunkSize, returns, classified, calls >>

finalizeScanSkipGaps(p) ==
  /\ pc[p] = "finalizeScan"
  /\ LET report == GetChunkReport(loc[p].chunkIndex) IN
     IF report = Null
     THEN IF \E i \in DOMAIN chunkReports : i > loc[p].chunkIndex
          THEN /\ loc' = [loc EXCEPT ![p].chunkIndex = loc[p].chunkIndex + 1]
               /\ UNCHANGED << pc, ret >>
          ELSE IF Len(loc[p].reports) = 0
          THEN Return(p, RetReport("finalizeDailyReport", NeutralReport))
          ELSE /\ pc' = [pc EXCEPT ![p] = "finalizeStore"]
               /\ UNCHANGED << loc, ret >>
     ELSE /\ loc' = [loc EXCEPT
                       ![p].reports = Append(loc[p].reports, report[1]),
                       ![p].chunkIndex = loc[p].chunkIndex + 1]
          /\ UNCHANGED << pc, ret >>
  /\ UNCHANGED << store, jobChunkSize, returns, classified, calls >>

finalizeScanCacheEmpty(p) ==
  /\ pc[p] = "finalizeScan"
  /\ LET report == GetChunkReport(loc[p].chunkIndex) IN
     IF report = Null
     THEN IF Len(loc[p].reports) = 0
          THEN /\ Return(p, RetReport("finalizeDailyReport", NeutralReport))
               /\ dailyReport' = Some(NeutralReport)
          ELSE /\ pc' = [pc EXCEPT ![p] = "finalizeStore"]
               /\ UNCHANGED << loc, ret, dailyReport >>
     ELSE /\ loc' = [loc EXCEPT
                       ![p].reports = Append(loc[p].reports, report[1]),
                       ![p].chunkIndex = loc[p].chunkIndex + 1]
          /\ UNCHANGED << pc, ret, dailyReport >>
  /\ UNCHANGED << history, progress, chunkReports, jobChunkSize,
                  returns, classified, calls >>

\* One turn of the while (true) loop: get chunkKey, break or push; after the
\* break, the empty return.
finalizeScan(p) ==
  /\ pc[p] = "finalizeScan"
  /\ LET report == GetChunkReport(loc[p].chunkIndex) IN
     IF report = Null
     THEN IF Len(loc[p].reports) = 0
          THEN Return(p, RetReport("finalizeDailyReport", NeutralReport))
          ELSE /\ pc' = [pc EXCEPT ![p] = "finalizeStore"]
               /\ UNCHANGED << loc, ret >>
     ELSE /\ loc' = [loc EXCEPT
                       ![p].reports = Append(loc[p].reports, report[1]),
                       ![p].chunkIndex = loc[p].chunkIndex + 1]
          /\ UNCHANGED << pc, ret >>
  /\ UNCHANGED << store, jobChunkSize, returns, classified, calls >>

\* finalReport = aggregateReports(reports); await set(reportKey, finalReport)
finalizeStore(p) ==
  /\ pc[p] = "finalizeStore"
  /\ dailyReport' = Some(aggregateReports(loc[p].reports))
  /\ Return(p, RetReport("finalizeDailyReport", aggregateReports(loc[p].reports)))
  /\ UNCHANGED << history, progress, chunkReports, jobChunkSize,
                  returns, classified, calls >>

getDailyReport(p) ==
  /\ pc[p] = "idle"
  /\ IF dailyReport = Null
     THEN Return(p, RetError("getDailyReport", "No daily report found"))
     ELSE Return(p, RetReport("getDailyReport", dailyReport[1]))
  /\ UNCHANGED << store, jobChunkSize, returns, classified, calls >>

\* JSON.parse(JSON.stringify({account, history: data})): an undefined data
\* leaves no history field.
HistoryPayload(data) ==
  [account |-> Some("account"), history |-> data]

storeHistoryWithAccount(p, data) ==
  /\ pc[p] = "idle"
  /\ history' = Some(HistoryPayload(data))
  /\ Return(p, [NoRet EXCEPT !.op = "storeHistoryWithAccount", !.status = "ok"])
  /\ UNCHANGED << progress, chunkReports, dailyReport, jobChunkSize,
                  returns, classified, calls >>

----------------------------------------------------------------------------
(* The environment: key removal and process death *)

\* redisService.del(chunkKey) by the cleanup the service leaves to others.
delChunkReport(index) ==
  /\ \A p \in Procs : pc[p] = "idle"
  /\ index \in DOMAIN chunkReports
  /\ chunkReports' = [i \in DOMAIN chunkReports \ {index} |-> chunkReports[i]]
  /\ UNCHANGED << history, progress, dailyReport, jobChunkSize, pc, loc, ret,
                  returns, classified, calls >>

\* The server dies while request p is suspended at an await.
Crash(p) ==
  /\ pc[p] # "idle"
  /\ pc' = [pc EXCEPT ![p] = "idle"]
  /\ loc' = [loc EXCEPT ![p] = NoLoc]
  /\ ret' = [ret EXCEPT ![p] = [NoRet EXCEPT !.status = "crash"]]
  /\ UNCHANGED << store, jobChunkSize, returns, classified, calls >>

----------------------------------------------------------------------------
(* Specifications *)

InitRequests ==
  /\ pc = [p \in Procs |-> "idle"]
  /\ loc = [p \in Procs |-> NoLoc]
  /\ ret = [p \in Procs |-> NoRet]
  /\ returns = <<>>
  /\ classified = <<>>
  /\ calls = 0

\* A fresh job: a stored history, no progress record, no chunk reports, and
\* a caller that passes one positive chunkSize.
Init ==
  /\ \E n \in 0..MaxLen : history = Some(HistoryPayload(Some(Items(n))))
  /\ progress = Null
  /\ chunkReports = <<>>
  /\ dailyReport = Null
  /\ jobChunkSize \in 1..MaxChunk
  /\ InitRequests

processNextChunkSteps(p) ==
  \/ getHistory(p)
  \/ getChunkProgress(p)
  \/ analyzeChunkStep(p)
  \/ setChunkReport(p)
  \/ setChunkProgress(p)

finalizeDailyReportSteps(p) ==
  \/ finalizeScan(p)
  \/ finalizeStore(p)

\* Sequential use: the caller awaits each request before sending the next.
Next ==
  \/ processNextChunk(Caller, MaxCalls)
  \/ processNextChunkSteps(Caller)
  \/ finalizeDailyReport(Caller)
  \/ finalizeDailyReportSteps(Caller)
  \/ getDailyReport(Caller)

Spec == Init /\ [][Next]_vars

\* Sequential use by a server that may die at any await.
NextCrash ==
  \/ processNextChunk(Caller, MaxCrashCalls)
  \/ processNextChunkSteps(Caller)
  \/ finalizeDailyReport(Caller)
  \/ finalizeDailyReportSteps(Caller)
  \/ getDailyReport(Caller)
  \/ Crash(Caller)

SpecCrash == Init /\ [][NextCrash]_vars

\* The service from an empty store, with any chunkSize, any stored data and
\* removal of chunk-report keys between requests.
InitEnv ==
  /\ history = Null
  /\ progress = Null
  /\ chunkReports = <<>>
  /\ dailyReport = Null
  /\ jobChunkSize \in (0 - 1)..2
  /\ InitRequests

NextEnv ==
  \/ processNextChunk(Caller, MaxEnvCalls)
  \/ processNextChunkSteps(Caller)
  \/ finalizeDailyReport(Caller)
  \/ finalizeDailyReportSteps(Caller)
  \/ getDailyReport(Caller)
  \/ \E data \in {Null} \cup {Some(Items(n)) : n \in 0..MaxEnvLen} :
       storeHistoryWithAccount(Caller, data)
  \/ \E index \in DOMAIN chunkReports : delChunkReport(index)

SpecEnv == InitEnv /\ [][NextEnv]_vars

\* Overlapping use: requests for the same job arrive while others are
\* suspended, and their store operations interleave freely.
InitConc ==
  /\ \E n \in 0..MaxConcLen : history = Some(HistoryPayload(Some(Items(n))))
  /\ progress = Null
  /\ chunkReports = <<>>
  /\ dailyReport = Null
  /\ jobChunkSize \in 1..MaxConcChunk
  /\ InitRequests

NextConc ==
  \E p \in Procs :
    \/ processNextChunk(p, MaxConcCalls)
    \/ processNextChunkSteps(p)

SpecConc == InitConc /\ [][NextConc]_vars

\* The request that runs finalizeDailyReport beside the advancing caller.
Finalizer == 2

\* One sequential advancer and finalize requests interleaved with it.
NextFin ==
  \/ processNextChunk(Caller, MaxConcCalls)
  \/ processNextChunkSteps(Caller)
  \/ finalizeDailyReport(Finalizer)
  \/ finalizeDailyReportSteps(Finalizer)

SpecFin == InitConc /\ [][NextFin]_vars

\* Reports a classifier can answer with: equal counts in either key order,
\* one origin under several paths and categories, an unparsable url, and
\* enough origins to exceed the top 5.
ReportC ==
  [ totalVisits |-> 6,
    categories |-> << [key |-> "Sports", val |-> 3], [key |-> "News", val |-> 3] >>,
    mostVisitedSites |->
      << [url |-> UrlB, category |-> "Shopping", visits |-> 3],
         [url |-> UrlBad, category |-> "General", visits |-> 3],
         [url |-> UrlAX, category |-> "Technology", visits |-> 1] >>,
    mostFrequentCategory |-> [category |-> "Sports", frequency |-> 3],
    mostFrequentSite |-> [url |-> UrlB, category |-> "Shopping", visits |-> 3] ]

ReportD ==
  [ totalVisits |-> 11,
    categories |-> << [key |-> "Travel", val |-> 6], [key |-> "Sports", val |-> 5] >>,
    mostVisitedSites |->
      << [url |-> <<"url", "https", "c.com", "/">>, category |-> "Travel", visits |-> 4],
         [url |-> <<"url", "https", "d.com", "/p/q">>, category |-> "Sports", visits |-> 4],
         [url |-> <<"url", "https", "e.com", "/">>, category |-> "Travel", visits |-> 1],
         [url |-> <<"url", "http", "a.com", "/">>, category |-> "Sports", visits |-> 2] >>,
    mostFrequentCategory |-> [category |-> "Travel", frequency |-> 6],
    mostFrequentSite |->
      [url |-> <<"url", "https", "c.com", "/">>, category |-> "Travel", visits |-> 4] ]

\* A report with more than five origins, equal visits, urls of schemes
\* without an origin, a zero count, and a mostFrequentCategory that its own
\* categories do not bear out.
ReportE ==
  [ totalVisits |-> 21,
    categories |-> << [key |-> "General", val |-> 0] >>,
    mostVisitedSites |->
      << [url |-> <<"url", "chrome", "extensions", "/">>, category |-> "Technology", visits |-> 2],
         [url |-> UrlB, category |-> "Shopping", visits |-> 5],
         [url |-> <<"url", "file", "", "/home/a.html">>, category |-> "General", visits |-> 1],
         [url |-> <<"url", "https", "c.com", "/">>, category |-> "Travel", visits |-> 5],
         [url |-> <<"url", "https", "d.com", "/">>, category |-> "Sports", visits |-> 1],
         [url |-> <<"url", "https", "e.com", "/">>, category |-> "Travel", visits |-> 4],
         [url |-> UrlBad, category |-> "General", visits |-> 2],
         [url |-> UrlAX, category |-> "News", visits |-> 1] >>,
    mostFrequentCategory |-> [category |-> "Technology", frequency |-> 4],
    mostFrequentSite |-> [url |-> UrlB, category |-> "Shopping", visits |-> 5] ]

AggReports == {NeutralReport, ReportA, ReportB, ReportC, ReportD, ReportE}

\* A job of n one-item chunks whose classifications have all been stored.
InitAgg ==
  /\ \E n \in 0..MaxReports :
       /\ history = Some(HistoryPayload(Some(Items(n))))
       /\ progress = IF n = 0 THEN Null ELSE Some(toString(n))
       /\ chunkReports \in [0..(n - 1) -> AggReports]
  /\ dailyReport = Null
  /\ jobChunkSize = 1
  /\ InitRequests

NextAgg ==
  \/ finalizeDailyReport(Caller)
  \/ finalizeDailyReportSteps(Caller)
  \/ getDailyReport(Caller)

SpecAgg == InitAgg /\ [][NextAgg]_vars

----------------------------------------------------------------------------
(* Properties of sequential chunk processing *)

\* ceil(length / chunkSize) for chunkSize > 0, by its defining inequalities.
Ceil(length, chunkSize) ==
  CHOOSE n \in 0..length :
    n * chunkSize >= length /\ (n > 0 => (n - 1) * chunkSize < length)

\* The job's history length and number of chunks (history is stored).
JobLength == Len(history[1].history[1])

JobChunks == Ceil(JobLength, jobChunkSize)

\* The stored progress as a number (0 when the key is absent).
StoredProgress ==
  IF progress = Null THEN 0
  ELSE IF Len(progress[1]) = 1 THEN progress[1][1]
  ELSE 10 * progress[1][1] + progress[1][2]

\* C1: on a fresh job with history length L and chunkSize c > 0, sequential
\* processNextChunk calls return completed:false exactly ceil(L/c) times and
\* completed:true from call ceil(L/c)+1 on; when true has been returned,
\* progress is ceil(L/c) and chunk reports exist at exactly 0..ceil(L/c)-1.
C1_Coverage ==
  /\ \A k \in 1..Len(returns) : returns[k] = (k > JobChunks)
  /\ Len(returns) > JobChunks =>
       /\ StoredProgress = JobChunks
       /\ DOMAIN chunkReports = 0..(JobChunks - 1)

\* L = 7, c = 3: false, false, false, true and exactly 3 chunk reports.
C1_Witness ==
  /\ JobLength = 7
  /\ jobChunkSize = 3
  /\ returns = << FALSE, FALSE, FALSE, TRUE >>
  /\ Cardinality(DOMAIN chunkReports) = 3

\* C2: once processNextChunk has returned completed:true, every further call
\* returns completed:true, hands nothing to the classifier, creates or
\* changes no chunk report and leaves progress unchanged.
C2_IdempotentTerminal ==
  [][ (\E k \in 1..Len(returns) : returns[k])
        => /\ chunkReports' = chunkReports
           /\ progress' = progress
           /\ classified' = classified
           /\ returns' # returns => returns' = Append(returns, TRUE) ]_vars

\* Two calls in a row have returned completed:true.
C2_Witness ==
  /\ Len(returns) >= 2
  /\ returns[Len(returns)]
  /\ returns[Len(returns) - 1]
  /\ pc[Caller] = "idle"
  /\ Len(classified) > 0

\* C3: under sequential use with one chunkSize > 0 the stored progress stays
\* within 0..totalChunks, never decreases, grows by exactly 1 in a call that
\* returns completed:false and by 0 in one that returns completed:true.
C3_ProgressInvariant ==
  /\ [](0 <= StoredProgress /\ StoredProgress <= JobChunks)
  /\ [][ /\ StoredProgress' >= StoredProgress
         /\ returns' = Append(returns, FALSE) => StoredProgress' = StoredProgress + 1
         /\ returns' = Append(returns, TRUE) => StoredProgress' = StoredProgress
         /\ returns' = returns => StoredProgress' = StoredProgress ]_vars

\* Progress has reached totalChunks >= 2 and a call returned completed:true.
C3_Witness ==
  /\ JobChunks >= 2
  /\ StoredProgress = JobChunks
  /\ Len(returns) = JobChunks + 1

\* C4: with a single sequential writer that may die at any await, a chunk
\* report exists for every index below the stored progress, and a call past
\* its progress read works on the index the stored progress still names, so
\* after a death before the progress write the next call takes that index
\* again.
C4_CrashSafeOrdering ==
  /\ \A i \in 0..(StoredProgress - 1) : i \in DOMAIN chunkReports
  /\ pc[Caller] \in {"analyzeChunk", "setChunkReport", "setChunkProgress"}
       => loc[Caller].currentChunkIndex = StoredProgress

\* A death fell between the two writes and the retry is about to write the
\* report of the same index again.
C4_Witness ==
  /\ ret[Caller].status = "none"
  /\ pc[Caller] = "setChunkReport"
  /\ loc[Caller].currentChunkIndex = 1
  /\ 1 \in DOMAIN chunkReports
  /\ StoredProgress = 1

\* C5: a failed classification (throw, no JSON object, unparsable payload)
\* never fails processNextChunk: the neutral report is stored at the current
\* index, progress advances by 1 and completed:false is returned; a job whose
\* classifications all fail is completed after ceil(L/c) calls.
C5_FailureAbsorbed ==
  /\ ~(ret[Caller].op = "processNextChunk" /\ ret[Caller].status = "error")
  /\ ( /\ pc[Caller] \in {"setChunkReport", "setChunkProgress"}
       /\ classified[Len(classified)].failed )
       => loc[Caller].chunkReport = Some(NeutralReport)
  /\ ( /\ pc[Caller] = "setChunkProgress"
       /\ classified[Len(classified)].failed )
       => /\ loc[Caller].currentChunkIndex \in DOMAIN chunkReports
          /\ chunkReports[loc[Caller].currentChunkIndex] = NeutralReport
  /\ ( /\ ret[Caller] = RetCompleted(FALSE)
       /\ classified[Len(classified)].failed )
       => /\ StoredProgress = Len(classified)
          /\ chunkReports[StoredProgress - 1] = NeutralReport
  /\ ( /\ \A k \in 1..Len(classified) : classified[k].failed
       /\ Len(returns) > JobChunks )
       => /\ returns[JobChunks + 1]
          /\ \A i \in DOMAIN chunkReports : chunkReports[i] = NeutralReport

\* Every classification of a job of three chunks failed and the job is done.
C5_Witness ==
  /\ JobChunks = 3
  /\ Len(classified) = 3
  /\ \A k \in 1..Len(classified) : classified[k].failed
  /\ ret[Caller] = RetCompleted(TRUE)

----------------------------------------------------------------------------
(* Properties of finalize and of the failure paths *)

\* The first index with no stored chunk report.
FirstMissing ==
  CHOOSE k \in 0..Cardinality(DOMAIN chunkReports) :
    k \notin DOMAIN chunkReports /\ \A i \in 0..(k - 1) : i \in DOMAIN chunkReports

\* The stored reports at indices 0..FirstMissing-1, in index order.
PrefixReports == [i \in 1..FirstMissing |-> chunkReports[i - 1]]

\* C6: finalizeDailyReport reads indices 0, 1, 2, ... and stops at the first
\* index k without a report; it aggregates exactly the reports at 0..k-1 in
\* index order, whatever is stored above k and whatever the progress is.
C6_FinalizeScanRule ==
  [][ /\ pc'[Caller] = "finalizeStore" => loc'[Caller].reports = PrefixReports
      /\ ( /\ pc[Caller] \in {"finalizeScan", "finalizeStore"}
           /\ pc'[Caller] = "idle" )
           => ret'[Caller] =
                RetReport("finalizeDailyReport",
                          IF FirstMissing = 0 THEN NeutralReport
                          ELSE aggregateReports(PrefixReports)) ]_vars

\* Finalize returned the aggregate of indices 0..k-1 while a report that is
\* not neutral sits above the gap at k and the progress is not k.
C6_Witness ==
  /\ pc[Caller] = "idle"
  /\ FirstMissing >= 1
  /\ ret[Caller] = RetReport("finalizeDailyReport", aggregateReports(PrefixReports))
  /\ \E i \in DOMAIN chunkReports : i > FirstMissing /\ chunkReports[i] # NeutralReport
  /\ StoredProgress # FirstMissing
  /\ dailyReport = ret[Caller].report

\* C7: with no chunk report at index 0, finalizeDailyReport returns the
\* neutral report without failing and leaves the daily-report key as it was.
C7_EmptyFinalize ==
  [][ (pc[Caller] = "finalizeScan" /\ 0 \notin DOMAIN chunkReports)
        => /\ pc'[Caller] = "idle"
           /\ ret'[Caller] = RetReport("finalizeDailyReport", NeutralReport)
           /\ dailyReport' = dailyReport ]_vars

\* An empty finalize has returned while an earlier aggregate stays cached.
C7_Witness ==
  /\ pc[Caller] = "idle"
  /\ 0 \notin DOMAIN chunkReports
  /\ ret[Caller] = RetReport("finalizeDailyReport", NeutralReport)
  /\ dailyReport # Null
  /\ dailyReport # Some(NeutralReport)

\* C8: processNextChunk with chunkSize <= 0 is rejected with an error, and
\* hands nothing to the classifier, writes no chunk report and no progress.
C8_RejectsNonPositiveChunkSize ==
  jobChunkSize <= 0 =>
    /\ classified = <<>>
    /\ chunkReports = <<>>
    /\ progress = Null
    /\ ret[Caller].op = "processNextChunk" => ret[Caller].status = "error"

\* C9: processNextChunk on an absent history record, or one without the
\* history or the account field, fails with the not-found error straight
\* from the history read, whatever the stored progress, with no classifier
\* call and no write.
C9_MissingHistoryFails ==
  [][ ( /\ pc[Caller] = "getHistory"
        /\ \/ history = Null
           \/ history[1].history = Null
           \/ history[1].account = Null )
        => /\ pc'[Caller] = "idle"
           /\ ret'[Caller] = RetError("processNextChunk", "No history found")
           /\ classified' = classified
           /\ store' = store ]_vars

\* The not-found failure hit a job that had completed before its history
\* record lost its history field.
C9_Witness ==
  /\ pc[Caller] = "idle"
  /\ ret[Caller] = RetError("processNextChunk", "No history found")
  /\ history # Null
  /\ progress # Null
  /\ \E k \in 1..Len(returns) : returns[k]

----------------------------------------------------------------------------
(* Properties of aggregateReports *)

RECURSIVE SumSeq(_)
SumSeq(s) == IF Len(s) = 0 THEN 0 ELSE s[1] + SumSeq(Tail(s))

\* The count a category map holds for name (0 when the key is missing).
CountOf(categories, name) ==
  SumSeq([i \in 1..Len(categories) |->
            IF categories[i].key = name THEN categories[i].val ELSE 0])

CategoryNames ==
  {"News", "Sports", "Shopping", "Technology", "Travel", "General"}

\* All stored chunk reports of a gap-free job, in index order.
StoredReports ==
  [i \in 1..Cardinality(DOMAIN chunkReports) |-> chunkReports[i - 1]]

\* C10: the aggregate's totalVisits is the sum of the reports' totalVisits
\* and its categories the key-wise sum of their category maps, so for every
\* split A ++ B the totalVisits of the whole is the sum of those of the parts.
C10_TotalsAdditive ==
  dailyReport # Null =>
    LET agg == dailyReport[1]
        rs == StoredReports
    IN  /\ agg.totalVisits = SumSeq([i \in 1..Len(rs) |-> rs[i].totalVisits])
        /\ \A i \in 1..Len(agg.categories) :
             /\ agg.categories[i].key \in CategoryNames
             /\ \A j \in 1..Len(agg.categories) :
                  agg.categories[i].key = agg.categories[j].key => i = j
        /\ \A name \in CategoryNames :
             CountOf(agg.categories, name) =
               SumSeq([i \in 1..Len(rs) |-> CountOf(rs[i].categories, name)])
        /\ \A j \in 0..Len(rs) :
             agg.totalVisits =
               aggregateReports(SubSeq(rs, 1, j)).totalVisits
                 + aggregateReports(SubSeq(rs, j + 1, Len(rs))).totalVisits

\* Three reports sharing category keys have been aggregated.
C10_Witness ==
  /\ dailyReport # Null
  /\ Len(StoredReports) = 3
  /\ StoredReports[1] = ReportA
  /\ StoredReports[2] = ReportC
  /\ StoredReports[3] = ReportD
  /\ CountOf(dailyReport[1].categories, "Sports") = 10
  /\ dailyReport[1].totalVisits = 22

\* All mostVisitedSites entries of the reports, in fold order.
RECURSIVE AllSites(_)
AllSites(reports) ==
  IF Len(reports) = 0 THEN <<>>
  ELSE reports[1].mostVisitedSites \o AllSites(Tail(reports))

\* All category entries of the reports, in fold order.
RECURSIVE AllCategories(_)
AllCategories(reports) ==
  IF Len(reports) = 0 THEN <<>>
  ELSE reports[1].categories \o AllCategories(Tail(reports))

\* G is the ranking of sites grouped by Key: one entry per group with the
\* summed visits and the category of the group's last site, by visits
\* descending with equal visits in first-seen order, cut to the best five.
RankedGroups(G, sites, Key(_)) ==
  LET keys == {Key(sites[i].url) : i \in 1..Len(sites)}
      FirstAt(k) == CHOOSE i \in 1..Len(sites) :
                      Key(sites[i].url) = k /\ \A j \in 1..(i - 1) : Key(sites[j].url) # k
      LastAt(k) == CHOOSE i \in 1..Len(sites) :
                     Key(sites[i].url) = k
                       /\ \A j \in (i + 1)..Len(sites) : Key(sites[j].url) # k
      VisitsOf(k) == SumSeq([i \in 1..Len(sites) |->
                               IF Key(sites[i].url) = k THEN sites[i].visits ELSE 0])
      Before(k1, k2) == \/ VisitsOf(k1) > VisitsOf(k2)
                        \/ VisitsOf(k1) = VisitsOf(k2) /\ FirstAt(k1) < FirstAt(k2)
  IN  /\ Len(G) = IF Cardinality(keys) < 5 THEN Cardinality(keys) ELSE 5
      /\ \A i \in 1..Len(G) :
           /\ G[i].url \in keys
           /\ G[i].visits = VisitsOf(G[i].url)
           /\ G[i].category = sites[LastAt(G[i].url)].category
      /\ \A i, j \in 1..Len(G) : i < j => Before(G[i].url, G[j].url)
      /\ \A k \in keys :
           (\A i \in 1..Len(G) : G[i].url # k)
             => \A i \in 1..Len(G) : Before(G[i].url, k)

\* The head of a site ranking, or the neutral site.
HeadSite(G) ==
  IF Len(G) > 0
  THEN [url |-> G[1].url, category |-> G[1].category, visits |-> G[1].visits]
  ELSE [url |-> <<"raw", "">>, category |-> "General", visits |-> 0]

\* The grouping key the service derives: scheme://host/ where URL.origin is
\* that, "null/" for a parsable url of any other scheme, else the url.
OriginKey(u) ==
  IF u[1] # "url" THEN u
  ELSE IF u[2] \in {"http", "https", "ftp", "ws", "wss"}
  THEN <<"url", u[2], u[3], "/">>
  ELSE <<"raw", "null/">>

\* cats[i] is the first entry of cats with the largest count.
FirstMaxAt(cats, i) ==
  /\ \A j \in 1..Len(cats) : cats[j].val <= cats[i].val
  /\ \A j \in 1..(i - 1) : cats[j].val < cats[i].val

\* The first entry with the largest count, or {General, 0}.
MaxCategory(cats) ==
  IF Len(cats) = 0 THEN [category |-> "General", frequency |-> 0]
  ELSE LET i == CHOOSE i \in 1..Len(cats) : FirstMaxAt(cats, i)
       IN  [category |-> cats[i].key, frequency |-> cats[i].val]

\* Descending by visits, equal visits in their given order, at most five.
IsTop5Sorted(G, sites) ==
  /\ Len(G) = (IF Len(sites) < 5 THEN Len(sites) ELSE 5)
  /\ \E f \in [1..Len(G) -> 1..Len(sites)] :
       /\ \A i \in 1..Len(G) : G[i] = sites[f[i]]
       /\ \A i, j \in 1..Len(G) :
            i < j => \/ sites[f[i]].visits > sites[f[j]].visits
                     \/ sites[f[i]].visits = sites[f[j]].visits /\ f[i] < f[j]
       /\ \A k \in 1..Len(sites) :
            (\A i \in 1..Len(G) : f[i] # k)
              => \A i \in 1..Len(G) :
                   \/ sites[f[i]].visits > sites[k].visits
                   \/ sites[f[i]].visits = sites[k].visits /\ f[i] < k

\* C11 as claimed: the aggregate of a single report r is r with its
\* mostVisitedSites sorted by visits descending and cut to five, every other
\* field and every site url as in r.
C11_SingleReportIdentity ==
  (dailyReport # Null /\ Len(StoredReports) = 1) =>
    LET agg == dailyReport[1]
        r == StoredReports[1]
    IN  /\ agg.totalVisits = r.totalVisits
        /\ agg.categories = r.categories
        /\ agg.mostFrequentCategory = r.mostFrequentCategory
        /\ agg.mostFrequentSite = r.mostFrequentSite
        /\ IsTop5Sorted(agg.mostVisitedSites, r.mostVisitedSites)

\* C11 amended: the aggregate of a single report r keeps r's totalVisits and
\* categories; its mostVisitedSites is r's sites grouped by the origin key,
\* ranked and cut to five; mostFrequentCategory is the first largest entry
\* of r's categories and mostFrequentSite the head of the ranking.
C11_SingleReportAggregate ==
  (dailyReport # Null /\ Len(StoredReports) = 1) =>
    LET agg == dailyReport[1]
        r == StoredReports[1]
    IN  /\ agg.totalVisits = r.totalVisits
        /\ agg.categories = r.categories
        /\ RankedGroups(agg.mostVisitedSites, r.mostVisitedSites, OriginKey)
        /\ agg.mostFrequentCategory = MaxCategory(r.categories)
        /\ agg.mostFrequentSite = HeadSite(agg.mostVisitedSites)

\* The single report with seven origins has been aggregated into five.
C11_Witness ==
  /\ dailyReport # Null
  /\ StoredReports = << ReportE >>
  /\ Len(dailyReport[1].mostVisitedSites) = 5
  /\ dailyReport[1].mostVisitedSites[2].url = <<"url", "https", "c.com", "/">>
  /\ dailyReport[1].mostFrequentCategory # ReportE.mostFrequentCategory

\* The origin form as claimed: scheme://host/ for every parsable url.
ClaimedOriginForm(u) ==
  IF u[1] = "url" THEN <<"url", u[2], u[3], "/">> ELSE u

\* C12: aggregateReports groups all mostVisitedSites entries by the origin
\* form of their url (scheme+host+"/", an unparsable url by itself), sums the
\* visits of a group, gives it the category of its last entry, ranks the
\* groups by visits descending with equal visits in first-seen order, keeps
\* at most five, and mostFrequentSite is the head of that ranking or the
\* neutral site.
C12_SiteRanking ==
  dailyReport # Null =>
    /\ RankedGroups(dailyReport[1].mostVisitedSites, AllSites(StoredReports),
                    ClaimedOriginForm)
    /\ dailyReport[1].mostFrequentSite = HeadSite(dailyReport[1].mostVisitedSites)

\* Position of the first entry of cats with the key.
FirstKeyAt(cats, key) ==
  CHOOSE i \in 1..Len(cats) :
    cats[i].key = key /\ \A j \in 1..(i - 1) : cats[j].key # key

\* The aggregated categories are in the order the reports first name them,
\* and mostFrequentCategory is the first of them with the largest count.
FirstLargestCategory(agg, reports) ==
  /\ \A i, j \in 1..Len(agg.categories) :
       i < j => FirstKeyAt(AllCategories(reports), agg.categories[i].key)
                  < FirstKeyAt(AllCategories(reports), agg.categories[j].key)
  /\ Len(agg.categories) > 0 =>
       \E i \in 1..Len(agg.categories) :
         /\ FirstMaxAt(agg.categories, i)
         /\ agg.mostFrequentCategory =
              [ category |-> agg.categories[i].key,
                frequency |-> agg.categories[i].val ]

\* C13 as claimed: mostFrequentCategory is the first-inserted category of
\* largest aggregated count with that count, and it is {General, 0} exactly
\* when the aggregated categories map is empty.
C13_MostFrequentCategory ==
  dailyReport # Null =>
    /\ FirstLargestCategory(dailyReport[1], StoredReports)
    /\ dailyReport[1].mostFrequentCategory = [category |-> "General", frequency |-> 0]
         <=> Len(dailyReport[1].categories) = 0

\* C13 amended: mostFrequentCategory is the first-inserted category of
\* largest aggregated count with that count, and it is {General, 0} when the
\* aggregated categories map is empty.
C13_MostFrequentCategoryOrDefault ==
  dailyReport # Null =>
    /\ FirstLargestCategory(dailyReport[1], StoredReports)
    /\ Len(dailyReport[1].categories) = 0
         => dailyReport[1].mostFrequentCategory =
              [category |-> "General", frequency |-> 0]

\* Two categories named by different reports share the largest count and
\* the one named first is returned.
C13_Witness ==
  /\ dailyReport # Null
  /\ Len(StoredReports) >= 2
  /\ \E i, j \in 1..Len(dailyReport[1].categories) :
       /\ i < j
       /\ FirstMaxAt(dailyReport[1].categories, i)
       /\ dailyReport[1].categories[j].val = dailyReport[1].categories[i].val
       /\ dailyReport[1].categories[i].val > 0
       /\ dailyReport[1].mostFrequentCategory.category = dailyReport[1].categories[i].key
       /\ FirstKeyAt(AllCategories(StoredReports), dailyReport[1].categories[j].key)
            > Len(StoredReports[1].categories)

\* The site ranking under the key the service derives (for comparison with
\* the claimed origin form).
SiteRankingByOriginKey ==
  dailyReport # Null =>
    RankedGroups(dailyReport[1].mostVisitedSites, AllSites(StoredReports), OriginKey)

----------------------------------------------------------------------------
(* Properties of the history record and of overlapping requests *)

\* C14: once a history record is stored for the job, no later operation
\* changes it, a later storeHistoryWithAccount included.
C14_HistoryImmutable ==
  [][history # Null => history' = history]_vars

\* C15: the store operations of processNextChunk are unguarded: a request is
\* never held back by another one, whatever that one has read or written, and
\* each request past its report write has written at the index it read; so
\* two overlapping requests can read the same index, classify the same chunk,
\* write the same report key and both return completed:false.
C15_UnguardedRace ==
  \A p \in Procs :
    /\ (pc[p] = "idle" /\ calls < MaxConcCalls)
         => ENABLED processNextChunk(p, MaxConcCalls)
    /\ pc[p] = "getHistory" => ENABLED getHistory(p)
    /\ pc[p] = "getChunkProgress" => ENABLED getChunkProgress(p)
    /\ pc[p] = "analyzeChunk" => ENABLED analyzeChunkStep(p)
    /\ pc[p] = "setChunkReport" => ENABLED setChunkReport(p)
    /\ pc[p] = "setChunkProgress"
         => /\ ENABLED setChunkProgress(p)
            /\ loc[p].currentChunkIndex \in DOMAIN chunkReports

\* Two requests, one call each, both classified the chunk of index 0, both
\* returned completed:false, and progress moved by one.
C15_Witness ==
  /\ calls = 2
  /\ \A p \in Procs : pc[p] = "idle"
  /\ ret[1] = RetCompleted(FALSE)
  /\ ret[2] = RetCompleted(FALSE)
  /\ returns = << FALSE, FALSE >>
  /\ Len(classified) = 2
  /\ classified[1].p # classified[2].p
  /\ classified[1].index = 0
  /\ classified[2].index = 0
  /\ classified[1].chunk = classified[2].chunk
  /\ Len(classified[1].chunk) > 0
  /\ DOMAIN chunkReports = {0}
  /\ StoredProgress = 1
  /\ JobChunks >= 2

\* C16: under overlapping processNextChunk calls the stored progress never
\* decreases.
C16_ProgressMonotoneUnderRace ==
  [][StoredProgress' >= StoredProgress]_vars

\* C20: under any interleaving of overlapping processNextChunk calls the
\* stored progress is at most totalChunks, every index below it has a chunk
\* report, the indices with a report are a gap-free prefix, and no report
\* is written at an index >= totalChunks.
C20_BoundsAndDensity ==
  /\ StoredProgress <= JobChunks
  /\ \A i \in 0..(StoredProgress - 1) : i \in DOMAIN chunkReports
  /\ DOMAIN chunkReports = 0..(Cardinality(DOMAIN chunkReports) - 1)
  /\ \A i \in DOMAIN chunkReports : i < JobChunks

\* A late progress write has set progress back below the number of reports
\* while another request is past its read of the higher value.
C20_Witness ==
  /\ StoredProgress = 1
  /\ DOMAIN chunkReports = {0, 1, 2}
  /\ JobChunks = 3
  /\ \E p \in Procs : pc[p] = "idle" /\ ret[p] = RetCompleted(FALSE)

\* C17: a finalizeDailyReport interleaved with one sequential advancer ends
\* without failing: its scan is never held back, the scan index is bounded
\* by totalChunks, every scan step advances the index or leaves the scan, the
\* store step (reached only with a report to aggregate) ends the call with a
\* report; and what it aggregates is the reports at 0..j-1 for a j between the
\* number of reports present when it began and the number present when it
\* ends.
C17_FinalizeSeesPrefix ==
  /\ [](pc[Finalizer] \in {"finalizeScan", "finalizeStore"}
          => /\ Len(loc[Finalizer].reports) <= Cardinality(DOMAIN chunkReports)
             /\ loc[Finalizer].reports =
                  [i \in 1..Len(loc[Finalizer].reports) |-> chunkReports[i - 1]]
             /\ loc[Finalizer].chunkIndex = Len(loc[Finalizer].reports)
             /\ loc[Finalizer].chunkIndex <= JobChunks
             /\ pc[Finalizer] = "finalizeScan" => ENABLED finalizeScan(Finalizer)
             /\ pc[Finalizer] = "finalizeStore" => Len(loc[Finalizer].reports) > 0)
  /\ [][ /\ (pc[Finalizer] = "finalizeScan" /\ loc'[Finalizer] # loc[Finalizer])
              => \/ pc'[Finalizer] = "idle"
                 \/ loc'[Finalizer].chunkIndex = loc[Finalizer].chunkIndex + 1
         /\ (pc[Finalizer] = "finalizeStore" /\ pc'[Finalizer] # "finalizeStore")
              => pc'[Finalizer] = "idle"
         /\ (pc[Finalizer] # "idle" /\ pc'[Finalizer] = "idle")
              => /\ ret'[Finalizer].status = "ok"
                 /\ Len(loc[Finalizer].reports) >= loc[Finalizer].reportsAtStart
                 /\ Len(loc[Finalizer].reports) <= Cardinality(DOMAIN chunkReports')
                 /\ ret'[Finalizer] =
                      RetReport("finalizeDailyReport",
                                IF Len(loc[Finalizer].reports) = 0 THEN NeutralReport
                                ELSE aggregateReports(loc[Finalizer].reports)) ]_vars

\* The scan stopped at a j strictly between the number of reports at its
\* start and the number stored by now.
C17_Witness ==
  /\ pc[Finalizer] = "finalizeStore"
  /\ loc[Finalizer].reportsAtStart < Len(loc[Finalizer].reports)
  /\ Len(loc[Finalizer].reports) < Cardinality(DOMAIN chunkReports)

\* C18: a stored chunk report is never changed: without a death each index
\* is written once, and when the server dies between the report write and the
\* progress write the retrying call writes at that index a report equal to
\* the one already stored.
C18_WriteOnceBenignRewrite ==
  [][\A i \in DOMAIN chunkReports :
        /\ i \in DOMAIN chunkReports'
        /\ chunkReports'[i] = chunkReports[i]]_vars

\* The stored history array of the job.
JobHistory == history[1].history[1]

\* The positions (call k, offset j) at which item was handed to the classifier.
ClassifiedAt(item) ==
  { kj \in (1..Len(classified)) \X (1..jobChunkSize) :
      /\ kj[2] <= Len(classified[kj[1]].chunk)
      /\ classified[kj[1]].chunk[kj[2]] = item }

\* C19: with history length L and chunkSize c > 0, the call that processes
\* index i hands the classifier exactly history[i*c .. min((i+1)*c, L) - 1] in
\* order; no classified chunk is empty, only the last chunk may be shorter
\* than c, and once the sequential run is complete every history item has
\* been handed to the classifier exactly once.
C19_ChunksPartitionHistory ==
  /\ \A k \in 1..Len(classified) :
       LET i == classified[k].index
           chunk == classified[k].chunk
           lo == i * jobChunkSize
           hi == IF (i + 1) * jobChunkSize < JobLength
                 THEN (i + 1) * jobChunkSize ELSE JobLength
       IN  /\ i = k - 1
           /\ chunk = [j \in 1..(hi - lo) |-> JobHistory[lo + j]]
           /\ Len(chunk) > 0
           /\ Len(chunk) <= jobChunkSize
           /\ Len(chunk) < jobChunkSize => i = JobChunks - 1
  /\ (\E k \in 1..Len(returns) : returns[k])
       => \A m \in 1..JobLength : Cardinality(ClassifiedAt(JobHistory[m])) = 1

\* L = 7, c = 3 run to completion: chunks of 3, 3 and 1 items.
C19_Witness ==
  /\ JobLength = 7
  /\ jobChunkSize = 3
  /\ returns = << FALSE, FALSE, FALSE, TRUE >>
  /\ Len(classified) = 3
  /\ classified[3].chunk = << 7 >>
  /\ pc[Caller] = "idle"

====
